---- MODULE Spec2Model ----
(***************************************************************************)
(* A model of crimsoncore's LambdaConfig (lambda_config.py): the layered   *)
(* lookup of configuration values, their validation and coercion, the      *)
(* memoizing getters and the three name builders; and of the layer updater *)
(* (layer_updater.py) with the parts of LambdaCore (lambda_core.py) it     *)
(* uses.                                                                   *)
(*                                                                         *)
(* Python strings are TLA+ strings, taken apart character by character     *)
(* with Head/Tail/SubSeq.  A Python value (None, str, bool, int) is a      *)
(* record tagged by its type, so that values of different types compare.   *)
(*                                                                         *)
(* The specifications explore one instance each:                           *)
(*   SpecVal       val over every pattern of the sources of a name;        *)
(*   Spec          the getters, over regions, compliance flags, archive    *)
(*                 modes;                                                  *)
(*   SpecNames     the name builders and the getters they call;            *)
(*   SpecChanging  the getters while the host changes the mappings;        *)
(*   SpecUpdater   layer_updater.py: the module is loaded, then            *)
(*                 lambda_handler is invoked on an account.                *)
(***************************************************************************)
EXTENDS Integers, Sequences, FiniteSets, TLC

VARIABLES
    script_name,        \* self._script_name
    lambda_overrides,   \* self._lambda_overrides: caller identity -> (name -> str)
    overrides,          \* self._overrides: name -> str
    env,                \* self._env: name -> str
    cache,              \* the memo slots of the instance (application_name .. notification_arn)
    last,               \* the most recent call on the instance and its outcome
    ncalls,             \* number of calls made on the instance so far
    history,            \* the getter calls made and the changes made to the mappings, in order
    given,              \* the mappings as they were when the instance was constructed
    functions,          \* the Lambda functions of the account: name -> configuration
    layer_versions,     \* the published layer versions of the account
    logger,             \* LambdaCore._log_handler and the handlers of its logger
    run                 \* the most recent invocation of lambda_handler

vars ==
    <<script_name, lambda_overrides, overrides, env, cache, last, ncalls,
      history, given, functions, layer_versions, logger, run>>

sources == <<script_name, lambda_overrides, overrides, env>>

\* what is recorded about the use of the configuration
observed == <<history, given>>

\* the account, the logger and the invocations of the layer updater
updater == <<functions, layer_versions, logger, run>>

----------------------------------------------------------------------------
(* Bounds of the exploration *)

\* calls made on one instance
MaxCalls == 2

\* changes made to the mappings an instance was given
MaxChanges == 1

----------------------------------------------------------------------------
(* Python values *)

None == [t |-> "none", s |-> "", b |-> FALSE, n |-> 0]

Str(x) == [t |-> "str", s |-> x, b |-> FALSE, n |-> 0]

Bool(x) == [t |-> "bool", s |-> "", b |-> x, n |-> 0]

IntVal(x) == [t |-> "int", s |-> "", b |-> FALSE, n |-> x]

\* a mapping with no entries ({} in the source)
EmptyMap == [k \in {} |-> ""]

\* the outcome of a call that returned v
Ok(v) == [err |-> "", v |-> v]

\* the outcome of a call that raised; the source raises ValueError at three
\* sites, told apart by their message, which the error taxonomy names
Raise(e) == [err |-> e, v |-> None]

MissingConfiguration == "MissingConfiguration"

InvalidConfigurationValue == "InvalidConfigurationValue"

InvalidState == "InvalidState"

----------------------------------------------------------------------------
(* str.lower() and str.join() *)

UPPER == "ABCDEFGHIJKLMNOPQRSTUVWXYZ"

LOWER == "abcdefghijklmnopqrstuvwxyz"

UpperChars == {SubSeq(UPPER, i, i) : i \in 1..Len(UPPER)}

\* the lower-case letter of each upper-case letter
LowerTable ==
    [c \in UpperChars |->
        LET i == CHOOSE j \in 1..Len(UPPER) : SubSeq(UPPER, j, j) = c
        IN  SubSeq(LOWER, i, i)]

LowerChar(c) == IF c \in UpperChars THEN LowerTable[c] ELSE c

RECURSIVE Lower(_)
Lower(s) ==
    IF s = "" THEN "" ELSE LowerChar(Head(s)) \o Lower(Tail(s))

\* sep.join(chunks) for a sequence of strings
RECURSIVE Join(_, _)
Join(sep, chunks) ==
    IF Len(chunks) = 0 THEN ""
    ELSE IF Len(chunks) = 1 THEN chunks[1]
    ELSE chunks[1] \o sep \o Join(sep, Tail(chunks))

\* s.split(sep) for a one-character sep; cur is the component being read
RECURSIVE Components(_, _, _)
Components(s, sep, cur) ==
    IF s = "" THEN <<cur>>
    ELSE IF Head(s) = sep THEN <<cur>> \o Components(Tail(s), sep, "")
    ELSE Components(Tail(s), sep, cur \o Head(s))

Digits == {"0", "1", "2", "3", "4", "5", "6", "7", "8", "9"}

\* the number a decimal digit stands for
DigitValue ==
    [d \in Digits |-> CHOOSE n \in 0..9 : SubSeq("0123456789", n + 1, n + 1) = d]

\* [\d]+ over the whole of s (ASCII digits)
IsDigits(s) == s # "" /\ \A i \in 1..Len(s) : SubSeq(s, i, i) \in Digits

\* int(s) for a string of digits; acc is the number read so far
RECURSIVE ToInt(_, _)
ToInt(s, acc) ==
    IF s = "" THEN acc ELSE ToInt(Tail(s), acc * 10 + DigitValue[Head(s)])

----------------------------------------------------------------------------
(* LambdaConfig.__init__: the tables *)

defaults ==
    [k \in {"APPLICATION_NAME", "DEBUG_MODE", "ENVIRONMENT", "GLOBAL_PREFIX",
            "LOG_PATH", "LOG_ARCHIVE_MODE", "SAFE_MODE", "STACK_NAME"} |->
        CASE k = "DEBUG_MODE" -> "off"
          [] k = "LOG_PATH" -> "../logs/"
          [] k = "LOG_ARCHIVE_MODE" -> "stdout"
          [] k = "SAFE_MODE" -> "off"
          [] OTHER -> ""]

OnOff == {"on", "off", "true", "false", "yes", "no"}

validations ==
    [k \in {"DEBUG_MODE", "ENABLE_NOTIFICATIONS", "FIPS_MODE",
            "LOG_ARCHIVE_MODE", "SAFE_MODE"} |->
        IF k = "LOG_ARCHIVE_MODE" THEN {"s3", "stdout"} ELSE OnOff]

\* the memo slots as __init__ leaves them
EmptyCache ==
    [application_name |-> None, debug_mode |-> None, log_level |-> None,
     log_path |-> None, safe_mode |-> None, fips_mode |-> None,
     log_archive_mode |-> None, aws_region |-> None, log_bucket |-> None,
     log_kms_key_id |-> None, global_prefix |-> None, environment |-> None,
     stack_name |-> None, notification_arn |-> None]

----------------------------------------------------------------------------
(* _get_val, _validate_val, val *)

\* _get_val with the environment consulted before the global override
GetValEnvFirst(name, default_override) ==
    IF /\ script_name \in DOMAIN lambda_overrides
       /\ name \in DOMAIN lambda_overrides[script_name]
    THEN Ok(Str(lambda_overrides[script_name][name]))
    ELSE IF name \in DOMAIN env THEN Ok(Str(env[name]))
    ELSE IF name \in DOMAIN overrides THEN Ok(Str(overrides[name]))
    ELSE IF name \in DOMAIN defaults THEN Ok(Str(defaults[name]))
    ELSE IF default_override # None THEN Ok(default_override)
    ELSE Raise(MissingConfiguration)

\* _get_val returning the fallback, null or not, instead of raising
GetValNoRaise(name, default_override) ==
    IF /\ script_name \in DOMAIN lambda_overrides
       /\ name \in DOMAIN lambda_overrides[script_name]
    THEN Ok(Str(lambda_overrides[script_name][name]))
    ELSE IF name \in DOMAIN overrides THEN Ok(Str(overrides[name]))
    ELSE IF name \in DOMAIN env THEN Ok(Str(env[name]))
    ELSE IF name \in DOMAIN defaults THEN Ok(Str(defaults[name]))
    ELSE Ok(default_override)

GetVal(name, default_override) ==
    IF /\ script_name \in DOMAIN lambda_overrides
       /\ name \in DOMAIN lambda_overrides[script_name]
    THEN Ok(Str(lambda_overrides[script_name][name]))
    ELSE IF name \in DOMAIN overrides THEN Ok(Str(overrides[name]))
    ELSE IF name \in DOMAIN env THEN Ok(Str(env[name]))
    ELSE IF name \in DOMAIN defaults THEN Ok(Str(defaults[name]))
    ELSE IF default_override # None THEN Ok(default_override)
    ELSE Raise(MissingConfiguration)

\* "" when the value passes, else the error raised
ValidateVal(name, value) ==
    IF name \in DOMAIN validations /\ value.s \notin validations[name]
    THEN InvalidConfigurationValue
    ELSE ""

\* the truthy spellings without "yes"
TruthyNoYes == {"on", "true"}

\* the truthy spellings of line 115
Truthy == {"on", "true", "yes"}

\* val validating the value as resolved, before it is lower-cased
ValValidatesRaw(name, to_lower, bool_coerce, default_override) ==
    LET got == GetVal(name, default_override)
        value == IF to_lower \/ bool_coerce THEN Str(Lower(got.v.s)) ELSE got.v
        verr == IF name \in DOMAIN validations THEN ValidateVal(name, got.v) ELSE ""
    IN  IF got.err # "" THEN got
        ELSE IF verr # "" THEN Raise(verr)
        ELSE IF bool_coerce THEN Ok(Bool(value.s \in Truthy))
        ELSE Ok(value)

Val(name, to_lower, bool_coerce, default_override) ==
    LET got == GetVal(name, default_override)
        value == IF to_lower \/ bool_coerce THEN Str(Lower(got.v.s)) ELSE got.v
        verr == IF name \in DOMAIN validations THEN ValidateVal(name, value) ELSE ""
    IN  IF got.err # "" THEN got
        ELSE IF verr # "" THEN Raise(verr)
        ELSE IF bool_coerce THEN Ok(Bool(value.s \in Truthy))
        ELSE Ok(value)

----------------------------------------------------------------------------
(* The record of a call *)

NoCall ==
    [op |-> "", name |-> None, to_lower |-> FALSE, bool_coerce |-> FALSE,
     default_override |-> None,
     include_global_prefix |-> FALSE, include_application_name |-> FALSE,
     include_environment |-> FALSE, include_stack_name |-> FALSE,
     err |-> "", ret |-> None]

\* an entry of the history: a getter call with its outcome, or a change of
\* the entry of name in a mapping (value is <<>> when the entry is deleted)
Called(op, r) == [op |-> op, name |-> "", value |-> <<>>, err |-> r.err, ret |-> r.v]

Changed(op, name, value) == [op |-> op, name |-> name, value |-> value, err |-> "", ret |-> None]

\* a logger without handlers; log_handler is the identity of the file
\* handler in use, 0 for None
NoLogger == [log_handler |-> 0, handlers |-> <<>>, closed |-> {}, next_id |-> 1]

\* no invocation of lambda_handler yet
NoRun ==
    [n |-> 0,
     event |-> [layer_name |-> None, runtime |-> None,
                has_lambda_names |-> FALSE, lambda_names |-> <<>>],
     time |-> "", fault |-> "", before |-> <<>>, opened |-> NoLogger,
     lambda_functions |-> <<>>,
     body_err |-> "", flare_err |-> "", raised |-> "", calls |-> <<>>]

\* the variables of the layer updater where only a configuration is explored
NoUpdater ==
    /\ functions = <<>>
    /\ layer_versions = <<>>
    /\ logger = NoLogger
    /\ run = NoRun

----------------------------------------------------------------------------
(* The inputs of val *)

ValNames ==
    {"APPLICATION_NAME", "DEBUG_MODE", "LOG_PATH", "LOG_ARCHIVE_MODE",
     "SAFE_MODE", "AWS_REGION", "FIPS_MODE", "NOTIFICATION_ARN",
     "LOG_KMS_KEY_ID", "LOG_BUCKET_NAME", "ENABLE_NOTIFICATIONS", "RUN_MODE"}

Fallbacks == {None, Str("ON"), Str("")}

\* val(name, to_lower, bool_coerce, default_override), called from outside
ValCall(name, to_lower, bool_coerce, default_override) ==
    /\ LET r == Val(name, to_lower, bool_coerce, default_override)
       IN  last' = [NoCall EXCEPT !.op = "val", !.name = Str(name),
                                  !.to_lower = to_lower,
                                  !.bool_coerce = bool_coerce,
                                  !.default_override = default_override,
                                  !.err = r.err, !.ret = r.v]
    /\ UNCHANGED <<sources, cache, ncalls, observed, updater>>

CallVal ==
    \E name \in ValNames, to_lower \in BOOLEAN, bool_coerce \in BOOLEAN,
       default_override \in Fallbacks :
        ValCall(name, to_lower, bool_coerce, default_override)

----------------------------------------------------------------------------
(* Instances for the lookup chain: every name is given the same value in a  *)
(* source, or is missing from it, source by source.                        *)

\* <<>>: the source has no entry; <<v>>: it maps every name to v
CallerChoices == {<<>>, <<"yes">>, <<"s3">>}

GlobalChoices == {<<>>, <<"Off">>, <<"junk">>}

EnvChoices ==
    {<<>>, <<"on">>, <<"TRUE">>, <<"STDOUT">>, <<"nonsense">>, <<"">>}

Mapping(choice) ==
    IF choice = <<>> THEN EmptyMap ELSE [k \in ValNames |-> choice[1]]

\* the overrides of another caller, which this caller must never see
OtherCaller == [k \in ValNames |-> "decoy"]

LambdaOverrideChoices ==
    {EmptyMap} \cup {[c \in {"other"} |-> OtherCaller]}
    \cup {[c \in {"test"} |-> Mapping(l)] : l \in CallerChoices}
    \cup {[c \in {"test", "other"} |->
              IF c = "test" THEN Mapping(l) ELSE OtherCaller] :
          l \in CallerChoices \ {<<>>}}

InitVal ==
    /\ script_name = "test"
    /\ lambda_overrides \in LambdaOverrideChoices
    /\ overrides \in {Mapping(o) : o \in GlobalChoices}
    /\ env \in {Mapping(e) : e \in EnvChoices}
    /\ cache = EmptyCache
    /\ last = NoCall
    /\ ncalls = 0
    /\ history = <<>>
    /\ given = [env |-> env, overrides |-> overrides]
    /\ NoUpdater

NextVal == CallVal

SpecVal == InitVal /\ [][NextVal]_vars

----------------------------------------------------------------------------
(* The memoizing getters.  Each takes the memo slots c and yields the slots *)
(* after the call, the error raised ("" if none) and the value returned.    *)

Hit(c, v) == [c |-> c, err |-> "", v |-> v]

Fail(c, e) == [c |-> c, err |-> e, v |-> None]

\* self.<slot> = <the value val returned>; nothing is stored when val raised
Store(c, slot, r) ==
    IF r.err # "" THEN Fail(c, r.err)
    ELSE [c |-> [c EXCEPT ![slot] = r.v], err |-> "", v |-> r.v]

\* get_application_name that resolves the name on every call
get_application_name_unmemoized(c) ==
    Store(c, "application_name", Val("APPLICATION_NAME", TRUE, FALSE, None))

get_application_name(c) ==
    IF c.application_name # None THEN Hit(c, c.application_name)
    ELSE Store(c, "application_name", Val("APPLICATION_NAME", TRUE, FALSE, None))

get_debug_mode(c) ==
    IF c.debug_mode # None THEN Hit(c, c.debug_mode)
    ELSE Store(c, "debug_mode", Val("DEBUG_MODE", FALSE, TRUE, None))

\* logging.DEBUG and logging.INFO
LOGGING_DEBUG == 10

LOGGING_INFO == 20

get_log_level(c) ==
    IF c.log_level # None THEN Hit(c, c.log_level)
    ELSE LET d == get_debug_mode(c)
         IN  IF d.err # "" THEN Fail(d.c, d.err)
             ELSE Store(d.c, "log_level",
                        Ok(IntVal(IF d.v.b THEN LOGGING_DEBUG ELSE LOGGING_INFO)))

get_log_path(c) ==
    IF c.log_path # None THEN Hit(c, c.log_path)
    ELSE Store(c, "log_path", Val("LOG_PATH", FALSE, FALSE, None))

get_safe_mode(c) ==
    IF c.safe_mode # None THEN Hit(c, c.safe_mode)
    ELSE Store(c, "safe_mode", Val("SAFE_MODE", FALSE, TRUE, None))

get_aws_region(c) ==
    IF c.aws_region # None THEN Hit(c, c.aws_region)
    ELSE Store(c, "aws_region", Val("AWS_REGION", TRUE, FALSE, None))

\* us-gov-(?:west|east)-[\d]+ over the whole of s
GovCloudPattern(s) ==
    \E p \in {"us-gov-west-", "us-gov-east-"} :
        /\ Len(s) > Len(p)
        /\ SubSeq(s, 1, Len(p)) = p
        /\ IsDigits(SubSeq(s, Len(p) + 1, Len(s)))

\* re.search('^us-gov-(?:west|east)-[\d]+$', s): without re.MULTILINE, ^ is
\* the start of s and $ is the end of s or the place before a newline that
\* ends s
ReSearchGovCloud(s) ==
    \/ GovCloudPattern(s)
    \/ /\ Len(s) > 0
       /\ SubSeq(s, Len(s), Len(s)) = "\n"
       /\ GovCloudPattern(SubSeq(s, 1, Len(s) - 1))

\* get_fips_mode in which a government region forces the flag on
get_fips_mode_region_wins(c) ==
    IF c.fips_mode # None THEN Hit(c, c.fips_mode)
    ELSE LET region == get_aws_region(c)
             in_gov_cloud == ReSearchGovCloud(region.v.s)
         IN  IF region.err # "" THEN Fail(region.c, region.err)
             ELSE IF in_gov_cloud THEN Store(region.c, "fips_mode", Ok(Bool(TRUE)))
             ELSE Store(region.c, "fips_mode",
                        Val("FIPS_MODE", FALSE, TRUE, Str("off")))

\* get_fips_mode that resolves the region only when the flag is not set
get_fips_mode_lazy_region(c) ==
    IF c.fips_mode # None THEN Hit(c, c.fips_mode)
    ELSE LET explicit == Val("FIPS_MODE", FALSE, TRUE, None)
             region == get_aws_region(c)
             in_gov_cloud == ReSearchGovCloud(region.v.s)
         IN  IF explicit.err # MissingConfiguration
             THEN Store(c, "fips_mode", explicit)
             ELSE IF region.err # "" THEN Fail(region.c, region.err)
             ELSE Store(region.c, "fips_mode",
                        Val("FIPS_MODE", FALSE, TRUE,
                            Str(IF in_gov_cloud THEN "on" ELSE "off")))

get_fips_mode(c) ==
    IF c.fips_mode # None THEN Hit(c, c.fips_mode)
    ELSE LET region == get_aws_region(c)
             in_gov_cloud == ReSearchGovCloud(region.v.s)
         IN  IF region.err # "" THEN Fail(region.c, region.err)
             ELSE Store(region.c, "fips_mode",
                        Val("FIPS_MODE", FALSE, TRUE,
                            Str(IF in_gov_cloud THEN "on" ELSE "off")))

get_global_prefix(c) ==
    IF c.global_prefix # None THEN Hit(c, c.global_prefix)
    ELSE Store(c, "global_prefix", Val("GLOBAL_PREFIX", TRUE, FALSE, None))

get_environment(c) ==
    IF c.environment # None THEN Hit(c, c.environment)
    ELSE Store(c, "environment", Val("ENVIRONMENT", TRUE, FALSE, None))

get_stack_name(c) ==
    IF c.stack_name # None THEN Hit(c, c.stack_name)
    ELSE Store(c, "stack_name", Val("STACK_NAME", TRUE, FALSE, None))

get_log_archive_mode(c) ==
    IF c.log_archive_mode # None THEN Hit(c, c.log_archive_mode)
    ELSE Store(c, "log_archive_mode", Val("LOG_ARCHIVE_MODE", TRUE, FALSE, None))

\* get_log_kms_key_id without the check of the archive mode
get_log_kms_key_id_unchecked(c) ==
    IF c.log_kms_key_id # None THEN Hit(c, c.log_kms_key_id)
    ELSE LET mode == get_log_archive_mode(c)
         IN  IF mode.err # "" THEN Fail(mode.c, mode.err)
             ELSE Store(mode.c, "log_kms_key_id",
                        Val("LOG_KMS_KEY_ID", FALSE, FALSE, None))

\* get_log_kms_key_id that stores the key before it checks the archive mode
get_log_kms_key_id_stores_first(c) ==
    IF c.log_kms_key_id # None THEN Hit(c, c.log_kms_key_id)
    ELSE LET key == Store(c, "log_kms_key_id",
                          Val("LOG_KMS_KEY_ID", FALSE, FALSE, None))
             mode == get_log_archive_mode(key.c)
         IN  IF key.err # "" THEN key
             ELSE IF mode.err # "" THEN Fail(mode.c, mode.err)
             ELSE IF mode.v.s # "s3" THEN Fail(mode.c, InvalidState)
             ELSE [key EXCEPT !.c = mode.c]

get_log_kms_key_id(c) ==
    IF c.log_kms_key_id # None THEN Hit(c, c.log_kms_key_id)
    ELSE LET mode == get_log_archive_mode(c)
         IN  IF mode.err # "" THEN Fail(mode.c, mode.err)
             ELSE IF mode.v.s # "s3" THEN Fail(mode.c, InvalidState)
             ELSE Store(mode.c, "log_kms_key_id",
                        Val("LOG_KMS_KEY_ID", FALSE, FALSE, None))

get_notification_arn(c) ==
    IF c.notification_arn # None THEN Hit(c, c.notification_arn)
    ELSE Store(c, "notification_arn", Val("NOTIFICATION_ARN", FALSE, FALSE, None))

----------------------------------------------------------------------------
(* The name builders *)

\* name_chunks = [...] with the slots as they are
Chunks(c, first) == [c |-> c, err |-> "", chunks |-> first]

\* self.get_<x>() for the segment x
get_segment(x, c) ==
    CASE x = "global_prefix" -> get_global_prefix(c)
      [] x = "application_name" -> get_application_name(c)
      [] x = "environment" -> get_environment(c)
      [] x = "stack_name" -> get_stack_name(c)

\* Segment that appends the value of an included segment even when it is empty
Segment_keeps_empty(st, include, x) ==
    IF st.err # "" \/ ~include THEN st
    ELSE LET measured == get_segment(x, st.c)
             appended == get_segment(x, measured.c)
         IN  IF measured.err # "" THEN [st EXCEPT !.c = measured.c, !.err = measured.err]
             ELSE [st EXCEPT !.c = appended.c,
                             !.chunks = Append(st.chunks, appended.v.s)]

\* if include and len(self.get_x()) > 0: name_chunks.append(self.get_x())
Segment(st, include, x) ==
    IF st.err # "" \/ ~include THEN st
    ELSE LET measured == get_segment(x, st.c)
             appended == get_segment(x, measured.c)
         IN  IF measured.err # "" THEN [st EXCEPT !.c = measured.c, !.err = measured.err]
             ELSE IF Len(measured.v.s) > 0
             THEN [st EXCEPT !.c = appended.c,
                             !.chunks = Append(st.chunks, appended.v.s)]
             ELSE [st EXCEPT !.c = measured.c]

\* the segments of todo, each <<include, x>>, taken in order
RECURSIVE Segments(_, _)
Segments(st, todo) ==
    IF Len(todo) = 0 THEN st
    ELSE Segments(Segment(st, todo[1][1], todo[1][2]), Tail(todo))

\* return sep.join(name_chunks + tail)
Joined(st, sep, tail) ==
    IF st.err # "" THEN Fail(st.c, st.err)
    ELSE Hit(st.c, Str(Join(sep, st.chunks \o tail)))

\* build_legacy_ssm_param_name that never appends the environment
build_legacy_ssm_param_name_no_environment(c, name, include_global_prefix, include_application_name, include_environment, include_stack_name) ==
    Joined(Segments(Chunks(c, <<>>),
                    << <<include_global_prefix, "global_prefix">>,
                     <<include_application_name, "application_name">>,
                     <<include_stack_name, "stack_name">> >>),
           "-", <<"ssm", name.s>>)

\* build_legacy_ssm_param_name with the stack name ahead of the environment
build_legacy_ssm_param_name_stack_first(c, name, include_global_prefix, include_application_name, include_environment, include_stack_name) ==
    Joined(Segments(Chunks(c, <<>>),
                    << <<include_global_prefix, "global_prefix">>,
                     <<include_application_name, "application_name">>,
                     <<include_stack_name, "stack_name">>,
                     <<include_environment, "environment">> >>),
           "-", <<"ssm", name.s>>)

build_legacy_ssm_param_name(c, name, include_global_prefix, include_application_name, include_environment, include_stack_name) ==
    Joined(Segments(Chunks(c, <<>>),
                    << <<include_global_prefix, "global_prefix">>,
                     <<include_application_name, "application_name">>,
                     <<include_environment, "environment">>,
                     <<include_stack_name, "stack_name">> >>),
           "-", <<"ssm", name.s>>)

\* build_ssm_param_name that appends the marker whether or not name is null
build_ssm_param_name_always_marker(c, name, include_global_prefix, include_application_name, include_environment, include_stack_name) ==
    Joined(Segments(Chunks(c, <<"">>),
                    << <<include_global_prefix, "global_prefix">>,
                     <<include_application_name, "application_name">>,
                     <<include_environment, "environment">>,
                     <<include_stack_name, "stack_name">> >>),
           "/", <<"ssm", name.s>>)

build_ssm_param_name(c, name, include_global_prefix, include_application_name, include_environment, include_stack_name) ==
    Joined(Segments(Chunks(c, <<"">>),
                    << <<include_global_prefix, "global_prefix">>,
                     <<include_application_name, "application_name">>,
                     <<include_environment, "environment">>,
                     <<include_stack_name, "stack_name">> >>),
           "/", IF name # None THEN <<"ssm", name.s>> ELSE <<"">>)

\* build_bucket_name with the application name ahead of the global prefix
build_bucket_name_app_first(c, name, include_global_prefix, include_application_name, include_environment) ==
    Joined(Segments(Chunks(c, <<>>),
                    << <<include_application_name, "application_name">>,
                     <<include_global_prefix, "global_prefix">>,
                     <<include_environment, "environment">> >>),
           "-", <<name.s>>)

build_bucket_name(c, name, include_global_prefix, include_application_name, include_environment) ==
    Joined(Segments(Chunks(c, <<>>),
                    << <<include_global_prefix, "global_prefix">>,
                     <<include_application_name, "application_name">>,
                     <<include_environment, "environment">> >>),
           "-", <<name.s>>)

\* get_log_bucket_name whose default includes the environment
get_log_bucket_name_with_environment(c) ==
    IF c.log_bucket # None THEN Hit(c, c.log_bucket)
    ELSE LET built == build_bucket_name(c, Str("logs"), TRUE, TRUE, TRUE)
         IN  IF built.err # "" THEN Fail(built.c, built.err)
             ELSE Store(built.c, "log_bucket",
                        Val("LOG_BUCKET_NAME", TRUE, FALSE, built.v))

\* the default is built before val is called, whether or not it is needed
get_log_bucket_name(c) ==
    IF c.log_bucket # None THEN Hit(c, c.log_bucket)
    ELSE LET built == build_bucket_name(c, Str("logs"), TRUE, TRUE, FALSE)
         IN  IF built.err # "" THEN Fail(built.c, built.err)
             ELSE Store(built.c, "log_bucket",
                        Val("LOG_BUCKET_NAME", TRUE, FALSE, built.v))

----------------------------------------------------------------------------
(* The calls made on an instance *)

\* a call without arguments whose outcome is r
Getter(op, r) ==
    /\ ncalls < MaxCalls
    /\ cache' = r.c
    /\ last' = [NoCall EXCEPT !.op = op, !.err = r.err, !.ret = r.v]
    /\ ncalls' = ncalls + 1
    /\ history' = Append(history, Called(op, r))
    /\ UNCHANGED <<sources, given, updater>>

GetApplicationName == Getter("get_application_name", get_application_name(cache))

GetDebugMode == Getter("get_debug_mode", get_debug_mode(cache))

GetLogLevel == Getter("get_log_level", get_log_level(cache))

GetLogPath == Getter("get_log_path", get_log_path(cache))

GetSafeMode == Getter("get_safe_mode", get_safe_mode(cache))

GetAwsRegion == Getter("get_aws_region", get_aws_region(cache))

GetFipsMode == Getter("get_fips_mode", get_fips_mode(cache))

GetGlobalPrefix == Getter("get_global_prefix", get_global_prefix(cache))

GetEnvironment == Getter("get_environment", get_environment(cache))

GetStackName == Getter("get_stack_name", get_stack_name(cache))

GetLogArchiveMode == Getter("get_log_archive_mode", get_log_archive_mode(cache))

GetLogKmsKeyId == Getter("get_log_kms_key_id", get_log_kms_key_id(cache))

GetNotificationArn == Getter("get_notification_arn", get_notification_arn(cache))

GetLogBucketName == Getter("get_log_bucket_name", get_log_bucket_name(cache))

\* a builder call with its arguments, whose outcome is r
Builder(op, name, igp, ian, ie, isn, r) ==
    /\ ncalls < MaxCalls
    /\ cache' = r.c
    /\ last' = [NoCall EXCEPT !.op = op, !.name = name,
                              !.include_global_prefix = igp,
                              !.include_application_name = ian,
                              !.include_environment = ie,
                              !.include_stack_name = isn,
                              !.err = r.err, !.ret = r.v]
    /\ ncalls' = ncalls + 1
    /\ UNCHANGED <<sources, observed, updater>>

BucketNames == {Str("testbucket1"), Str("logs")}

SsmNames == {Str("param1"), None}

LegacyNames == {Str("param1")}

BuildLegacySsmParamName ==
    \E name \in LegacyNames, igp \in BOOLEAN, ian \in BOOLEAN,
       ie \in BOOLEAN, isn \in BOOLEAN :
        Builder("build_legacy_ssm_param_name", name, igp, ian, ie, isn,
                build_legacy_ssm_param_name(cache, name, igp, ian, ie, isn))

BuildSsmParamName ==
    \E name \in SsmNames, igp \in BOOLEAN, ian \in BOOLEAN,
       ie \in BOOLEAN, isn \in BOOLEAN :
        Builder("build_ssm_param_name", name, igp, ian, ie, isn,
                build_ssm_param_name(cache, name, igp, ian, ie, isn))

BuildBucketName ==
    \E name \in BucketNames, igp \in BOOLEAN, ian \in BOOLEAN, ie \in BOOLEAN :
        Builder("build_bucket_name", name, igp, ian, ie, FALSE,
                build_bucket_name(cache, name, igp, ian, ie))

----------------------------------------------------------------------------
(* Instances for the getters: a region and a compliance flag, or an archive *)
(* mode and a key (Spec); the segments of the names (SpecNames).  The       *)
(* sources of an instance stay as they were given at construction.          *)

\* the mapping made of a set of <<name, value>> pairs
MapOf(pairs) ==
    [k \in {p[1] : p \in pairs} |-> (CHOOSE p \in pairs : p[1] = k)[2]]

\* the ways to set a name: not at all, or to one of the values (as sets of
\* <<name, value>> pairs)
Setting(name, values) == {{}} \cup {{<<name, v>>} : v \in values}

RegionChoices ==
    {"us-gov-west-1", "us-gov-east-1", "US-GOV-EAST-12", "us-east-1",
     "us-gov-west-", "us-gov-north-1", "us-gov-west-1a", "xus-gov-west-1",
     "us-gov-west-1\n", ""}

FipsChoices == {"on", "OFF", "Yes", "junk"}

ArchiveModeChoices == {"s3", "S3", "stdout", "STDOUT", "local"}

KmsKeyChoices == {"Key-1", ""}

\* environments of the compliance flag: the flag is set in the environment,
\* in the global override, or nowhere
FipsInstances ==
    {[e |-> MapOf(r \cup f), o |-> EmptyMap] :
        r \in Setting("AWS_REGION", RegionChoices),
        f \in Setting("FIPS_MODE", FipsChoices)}
    \cup
    {[e |-> MapOf(r), o |-> MapOf(f)] :
        r \in Setting("AWS_REGION", RegionChoices),
        f \in Setting("FIPS_MODE", FipsChoices) \ {{}}}

ArchiveInstances ==
    {[e |-> MapOf(m \cup k), o |-> EmptyMap] :
        m \in Setting("LOG_ARCHIVE_MODE", ArchiveModeChoices),
        k \in Setting("LOG_KMS_KEY_ID", KmsKeyChoices)}

NamingInstances ==
    {[e |-> MapOf(p \cup a \cup v \cup s \cup b), o |-> EmptyMap] :
        p \in Setting("GLOBAL_PREFIX", {"Test", ""}),
        a \in Setting("APPLICATION_NAME", {"myappname"}),
        v \in Setting("ENVIRONMENT", {"dev"}),
        s \in Setting("STACK_NAME", {"stack-a"}),
        b \in Setting("LOG_BUCKET_NAME", {"My-Logs"})}

\* instances without a log bucket name, for its computed default
DefaultBucketInstances ==
    {[e |-> MapOf({<<"GLOBAL_PREFIX", "log">>, <<"APPLICATION_NAME", "test">>}
                  \cup v),
      o |-> EmptyMap] :
        v \in Setting("ENVIRONMENT", {"dev"})}

InitWith(instances) ==
    /\ script_name = "test"
    /\ lambda_overrides = EmptyMap
    /\ \E i \in instances : env = i.e /\ overrides = i.o
    /\ cache = EmptyCache
    /\ last = NoCall
    /\ ncalls = 0
    /\ history = <<>>
    /\ given = [env |-> env, overrides |-> overrides]
    /\ NoUpdater

Init == InitWith(FipsInstances \cup ArchiveInstances)

Next ==
    \/ GetApplicationName
    \/ GetDebugMode
    \/ GetLogLevel
    \/ GetLogPath
    \/ GetSafeMode
    \/ GetAwsRegion
    \/ GetFipsMode
    \/ GetGlobalPrefix
    \/ GetEnvironment
    \/ GetStackName
    \/ GetLogArchiveMode
    \/ GetLogKmsKeyId
    \/ GetNotificationArn
    \/ GetLogBucketName

Spec == Init /\ [][Next]_vars

InitNames == InitWith(NamingInstances \cup DefaultBucketInstances)

NextNames ==
    \/ GetGlobalPrefix
    \/ GetApplicationName
    \/ GetEnvironment
    \/ GetStackName
    \/ GetLogBucketName
    \/ BuildLegacySsmParamName
    \/ BuildSsmParamName
    \/ BuildBucketName

SpecNames == InitNames /\ [][NextNames]_vars

----------------------------------------------------------------------------
(* Changes of the mappings after construction.  __init__ keeps the mappings *)
(* it is given (self._env = env, self._overrides = overrides), and          *)
(* LambdaCore passes os.environ, so what the host later writes to them is   *)
(* what _get_val reads.                                                     *)

MapPut(m, k, v) == [x \in DOMAIN m \cup {k} |-> IF x = k THEN v ELSE m[x]]

MapDel(m, k) == [x \in DOMAIN m \ {k} |-> m[x]]

ChangeOps == {"setenv", "delenv", "setoverride"}

NumChanges ==
    Cardinality({i \in 1..Len(history) : history[i].op \in ChangeOps})

\* a change that leaves the instance itself as it is
Change(entry) ==
    /\ NumChanges < MaxChanges
    /\ history' = Append(history, entry)
    /\ UNCHANGED <<script_name, lambda_overrides, cache, last, ncalls, given,
                   updater>>

\* env[name] = value
SetEnv(name, value) ==
    /\ env' = MapPut(env, name, value)
    /\ UNCHANGED overrides
    /\ Change(Changed("setenv", name, <<value>>))

\* del env[name]
DelEnv(name) ==
    /\ name \in DOMAIN env
    /\ env' = MapDel(env, name)
    /\ UNCHANGED overrides
    /\ Change(Changed("delenv", name, <<>>))

\* overrides[name] = value
SetOverride(name, value) ==
    /\ overrides' = MapPut(overrides, name, value)
    /\ UNCHANGED env
    /\ Change(Changed("setoverride", name, <<value>>))

EnvChanges ==
    {<<"APPLICATION_NAME", "Changed">>, <<"DEBUG_MODE", "on">>,
     <<"LOG_PATH", "/tmp/logs/">>, <<"SAFE_MODE", "yes">>,
     <<"AWS_REGION", "us-gov-west-1">>, <<"FIPS_MODE", "on">>,
     <<"GLOBAL_PREFIX", "New">>, <<"ENVIRONMENT", "prod">>,
     <<"STACK_NAME", "stack-b">>, <<"LOG_ARCHIVE_MODE", "stdout">>,
     <<"LOG_KMS_KEY_ID", "Key-2">>, <<"NOTIFICATION_ARN", "arn-2">>,
     <<"LOG_BUCKET_NAME", "Other-Logs">>}

EnvRemovals == {"APPLICATION_NAME", "AWS_REGION", "LOG_ARCHIVE_MODE"}

OverrideChanges ==
    {<<"APPLICATION_NAME", "Forced">>, <<"DEBUG_MODE", "on">>,
     <<"LOG_KMS_KEY_ID", "Key-3">>}

SetEnvironment == \E c \in EnvChanges : SetEnv(c[1], c[2])

DelEnvironment == \E name \in EnvRemovals : DelEnv(name)

SetOverrides == \E c \in OverrideChanges : SetOverride(c[1], c[2])

\* an environment that sets every name, an empty one, and one under a
\* global override
ChangingInstances ==
    {[e |-> MapOf({<<"APPLICATION_NAME", "First">>, <<"DEBUG_MODE", "off">>,
                   <<"LOG_PATH", "../logs/">>, <<"SAFE_MODE", "off">>,
                   <<"AWS_REGION", "us-east-1">>, <<"FIPS_MODE", "off">>,
                   <<"GLOBAL_PREFIX", "Test">>, <<"ENVIRONMENT", "dev">>,
                   <<"STACK_NAME", "stack-a">>, <<"LOG_ARCHIVE_MODE", "s3">>,
                   <<"LOG_KMS_KEY_ID", "Key-1">>, <<"NOTIFICATION_ARN", "arn-1">>,
                   <<"LOG_BUCKET_NAME", "My-Logs">>}),
      o |-> EmptyMap],
     [e |-> EmptyMap, o |-> EmptyMap],
     [e |-> MapOf({<<"AWS_REGION", "us-east-1">>}),
      o |-> MapOf({<<"APPLICATION_NAME", "Pinned">>})]}

InitChanging == InitWith(ChangingInstances)

NextChanging ==
    \/ Next
    \/ SetEnvironment
    \/ DelEnvironment
    \/ SetOverrides

SpecChanging == InitChanging /\ [][NextChanging]_vars

----------------------------------------------------------------------------
(* lambda_core.py: the logger of a LambdaCore.  A step that uses the        *)
(* outcome of an earlier step takes that outcome as an argument.            *)

\* lines 217-219 with the handler in use closed and left on the logger
Detached_not_removed(lg) ==
    IF lg.log_handler # 0
    THEN [lg EXCEPT !.closed = @ \cup {lg.log_handler}]
    ELSE lg

\* lines 217-219: the handler in use is closed and taken off the logger
Detached(lg) ==
    IF lg.log_handler # 0
    THEN [lg EXCEPT !.closed = @ \cup {lg.log_handler},
                    !.handlers = SelectSeq(@, LAMBDA h : h.id # lg.log_handler)]
    ELSE lg

\* lines 221-224, given the outcomes of get_log_path and get_log_level: the
\* new handler is assigned before its level is set and added after
Attached(lg, path, level, filename) ==
    IF path.err # "" THEN [lg |-> lg, c |-> path.c, err |-> path.err]
    ELSE IF level.err # ""
    THEN [lg |-> [lg EXCEPT !.log_handler = lg.next_id, !.next_id = @ + 1],
          c |-> level.c, err |-> level.err]
    ELSE [lg |-> [lg EXCEPT !.log_handler = lg.next_id, !.next_id = @ + 1,
                            !.handlers = Append(@, [id |-> lg.next_id,
                                                    file |-> path.v.s \o "/" \o filename])],
          c |-> level.c, err |-> ""]

\* lines 221-224, given the outcome of get_log_path
AttachedAt(lg, path, filename) ==
    Attached(lg, path, get_log_level(path.c), filename)

\* change_logfile(filename): the logger lg and the memo slots c after the
\* call, and the error raised
change_logfile(lg, c, filename) ==
    AttachedAt(Detached(lg), get_log_path(c), filename)

\* self.config.get_<x>() for the getters LambdaCore calls without using
\* what they return
get_config(op, c) ==
    CASE op = "get_log_path" -> get_log_path(c)
      [] op = "get_log_level" -> get_log_level(c)
      [] op = "get_fips_mode" -> get_fips_mode(c)
      [] op = "get_aws_region" -> get_aws_region(c)

\* the getters of ops called in order, up to the first that raises
RECURSIVE CallAll(_, _)
CallAll(st, ops) ==
    IF Len(ops) = 0 \/ st.err # "" THEN st
    ELSE CallAll([lg |-> st.lg, c |-> get_config(ops[1], st.c).c,
                  err |-> get_config(ops[1], st.c).err],
                 Tail(ops))

\* the logger of line 45 with the stream handler of line 46
StreamLogger ==
    [NoLogger EXCEPT !.handlers = <<[id |-> 1, file |-> "<stdout>"]>>,
                     !.next_id = 2]

\* line 47, after the lines before it ended in st
Bootstrapped(st) ==
    IF st.err # "" THEN st ELSE change_logfile(st.lg, st.c, "bootstrap.log")

\* LambdaCore.__init__ (lines 32-48) followed by init_s3, init_sns and
\* init_lambda, as layer_updater.py runs them when it is loaded
LambdaCoreLoaded ==
    CallAll(Bootstrapped(CallAll([lg |-> StreamLogger, c |-> EmptyCache, err |-> ""],
                                 <<"get_log_path", "get_log_level">>)),
            <<"get_log_level",
              "get_fips_mode", "get_aws_region",
              "get_aws_region", "get_fips_mode",
              "get_aws_region", "get_fips_mode">>)

\* a call made to a service: its operation, the resource it addresses, the
\* key or text it carries and, for a function update, the layers
ServiceCall(api, target, key, layers) ==
    [api |-> api, target |-> target, key |-> key, layers |-> layers]

\* the outcome of a step that made no call
Quiet(r) == [c |-> r.c, err |-> r.err, calls |-> <<>>]

\* lines 234-240, given the outcomes of get_log_bucket_name and
\* get_log_kms_key_id; the service fails if fault names put_object
PutObject(bucket, key, filepath, fault) ==
    IF key.err # "" THEN Quiet(key)
    ELSE [c |-> key.c,
          err |-> IF fault = "put_object" THEN "ClientError" ELSE "",
          calls |-> <<ServiceCall("put_object", bucket.v.s, filepath, <<>>)>>]

\* lines 232-240, given the outcome of get_log_bucket_name
ArchivedTo(bucket, filepath, fault) ==
    IF bucket.err # "" THEN Quiet(bucket)
    ELSE PutObject(bucket, get_log_kms_key_id(bucket.c), filepath, fault)

\* lines 231-242, given the outcome of get_log_archive_mode
Archived(mode, filepath, fault) ==
    IF mode.err # "" \/ mode.v # Str("s3") THEN Quiet(mode)
    ELSE ArchivedTo(get_log_bucket_name(mode.c), filepath, fault)

\* archive_log_file(filepath, data)
archive_log_file(c, filepath, fault) ==
    Archived(get_log_archive_mode(c), filepath, fault)

\* lines 250-260, given the outcome of get_notification_arn; the service
\* fails if fault names publish
Notified(arn, message, fault) ==
    IF arn.err # "" THEN Quiet(arn)
    ELSE [c |-> arn.c,
          err |-> IF fault = "publish" THEN "ClientError" ELSE "",
          calls |-> <<ServiceCall("publish", arn.v.s, message, <<>>)>>]

\* send_notification(notification_type, message)
send_notification(c, message, fault) ==
    Notified(get_notification_arn(c), message, fault)

----------------------------------------------------------------------------
(* layer_updater.py *)

LAMBDA_NAME == "layer_updater"

\* parse_lambda_layer_arn(arn): the unpacking needs eight fields and int()
\* needs a number
parse_lambda_layer_arn(arn) ==
    LET parts == Components(arn, ":", "")
    IN  IF Len(parts) # 8 \/ ~IsDigits(parts[8])
        THEN [err |-> "ValueError", region |-> "", account_id |-> "",
              layer |-> "", version |-> 0]
        ELSE [err |-> "", region |-> parts[4], account_id |-> parts[5],
              layer |-> parts[7], version |-> ToInt(parts[8], 0)]

get_layer_version_from_arn(arn) == parse_lambda_layer_arn(arn).version

\* d.get(key) of a dict d
Get(d, key) == IF key \in DOMAIN d THEN d[key] ELSE None

\* not v, for the values an event carries
Falsy(v) == v = None \/ v = Str("")

\* a == b for Python values of any two types
PyEq(a, b) == a.t = b.t /\ a = b

\* the order in which the service lists the functions
FunctionOrder == <<"f1", "f2">>

\* list_functions over all its pages
list_functions(fns) ==
    LET present == SelectSeq(FunctionOrder, LAMBDA name : name \in DOMAIN fns)
    IN  [i \in 1..Len(present) |-> fns[present[i]]]

\* the response of get_function: the configuration is one of its entries
get_function(fns, name) ==
    [Configuration |-> fns[name],
     Code |-> [t |-> "dict", RepositoryType |-> "S3"]]

\* lines 68-71: the named functions whose response has the runtime
RECURSIVE NamedFunctions(_, _, _, _)
NamedFunctions(fns, lambda_names, runtime, found) ==
    IF Len(lambda_names) = 0 THEN [err |-> "", lambda_functions |-> found]
    ELSE IF lambda_names[1] \notin DOMAIN fns
    THEN [err |-> "ResourceNotFoundException", lambda_functions |-> found]
    ELSE LET ret == get_function(fns, lambda_names[1])
         IN  NamedFunctions(fns, Tail(lambda_names), runtime,
                            IF PyEq(Get(ret, "Runtime"), runtime)
                            THEN Append(found, Get(ret, "Configuration"))
                            ELSE found)

\* lines 61-71
LambdaFunctions(fns, event) ==
    IF ~event.has_lambda_names
    THEN [err |-> "",
          lambda_functions |->
              SelectSeq(list_functions(fns),
                        LAMBDA f : PyEq(Get(f, "Runtime"), event.runtime))]
    ELSE NamedFunctions(fns, event.lambda_names, event.runtime, <<>>)

\* lines 76-81: the functions that use the layer; a configuration without
\* Layers cannot be iterated
RECURSIVE TargetFunctions(_, _, _)
TargetFunctions(lambda_functions, layer_name, found) ==
    IF Len(lambda_functions) = 0 THEN [err |-> "", target_functions |-> found]
    ELSE LET f == lambda_functions[1]
             layers == [i \in 1..Len(f.Layers) |->
                           parse_lambda_layer_arn(f.Layers[i].Arn)]
         IN  IF "Layers" \notin DOMAIN f
             THEN [err |-> "TypeError", target_functions |-> found]
             ELSE IF \E i \in 1..Len(layers) : layers[i].err # ""
             THEN [err |-> "ValueError", target_functions |-> found]
             ELSE TargetFunctions(
                      Tail(lambda_functions), layer_name,
                      IF \E i \in 1..Len(layers) : layers[i].layer = layer_name
                      THEN Append(found, f) ELSE found)

\* list_layer_versions(CompatibleRuntime, LayerName) over all its pages
list_layer_versions(published, runtime, layer_name) ==
    LET listed == SelectSeq(published,
                            LAMBDA v : /\ v.LayerName = layer_name
                                       /\ runtime \in v.CompatibleRuntimes)
    IN  [i \in 1..Len(listed) |-> listed[i].LayerVersionArn]

\* max(layer_versions, key=get_layer_version_from_arn) after best, the
\* greatest so far: the first of the greatest
RECURSIVE MaxVersion(_, _)
MaxVersion(arns, best) ==
    IF Len(arns) = 0 THEN best
    ELSE MaxVersion(Tail(arns),
                    IF get_layer_version_from_arn(arns[1])
                           > get_layer_version_from_arn(best)
                    THEN arns[1] ELSE best)

\* lines 103-105 with every layer replaced, whatever its name
NewLayers_all_replaced(f, layer_name, best_layer_version) ==
    [i \in 1..Len(f.Layers) |-> best_layer_version]

\* lines 103-105
NewLayers(f, layer_name, best_layer_version) ==
    [i \in 1..Len(f.Layers) |->
        IF parse_lambda_layer_arn(f.Layers[i].Arn).layer = layer_name
        THEN best_layer_version ELSE f.Layers[i].Arn]

\* the function the service knows under arn, with its layers replaced
Reconfigured(fns, arn, new_layers) ==
    [name \in DOMAIN fns |->
        IF fns[name].FunctionArn = arn
        THEN [fns[name] EXCEPT
                  !.Layers = [i \in 1..Len(new_layers) |->
                                 [t |-> "dict", Arn |-> new_layers[i]]]]
        ELSE fns[name]]

\* lines 99-112: done holds the calls made so far and the functions as they
\* are; the service fails a call if fault names update_function_configuration
RECURSIVE UpdateTargets(_, _, _, _, _)
UpdateTargets(target_functions, layer_name, best_layer_version, fault, done) ==
    IF Len(target_functions) = 0 THEN done
    ELSE LET f == target_functions[1]
             new_layers == NewLayers(f, layer_name, best_layer_version)
             call == ServiceCall("update_function_configuration",
                                 f.FunctionArn, "", new_layers)
         IN  IF \E i \in 1..Len(f.Layers) :
                    PyEq(Str(best_layer_version), f.Layers[i])
             THEN UpdateTargets(Tail(target_functions), layer_name,
                                best_layer_version, fault, done)
             ELSE IF fault = "update_function_configuration"
             THEN [done EXCEPT !.err = "ClientError",
                               !.calls = Append(@, call)]
             ELSE UpdateTargets(
                      Tail(target_functions), layer_name, best_layer_version,
                      fault,
                      [done EXCEPT !.calls = Append(@, call),
                                   !.fns = Reconfigured(@, f.FunctionArn,
                                                        new_layers)])

\* the outcome of the body when it ends with err before any update
Ended(fns, err) == [err |-> err, calls |-> <<>>, fns |-> fns]

\* lines 95-112, given what list_layer_versions listed; max() of an empty
\* list raises
Retargeted(event, fns, fault, target_functions, versions) ==
    IF Len(versions) = 0 THEN Ended(fns, "ValueError")
    ELSE UpdateTargets(target_functions, event.layer_name.s,
                       MaxVersion(Tail(versions), versions[1]),
                       fault, Ended(fns, ""))

\* lines 85-112, given the outcome of lines 76-81
Filtered(event, fns, published, fault, targets) ==
    IF targets.err # "" THEN Ended(fns, targets.err)
    ELSE Retargeted(event, fns, fault, targets.target_functions,
                    list_layer_versions(published, event.runtime.s,
                                        event.layer_name.s))

\* lines 73-112, given the outcome of lines 61-71
Pulled(event, fns, published, fault, found) ==
    IF found.err # "" THEN Ended(fns, found.err)
    ELSE Filtered(event, fns, published, fault,
                  TargetFunctions(found.lambda_functions,
                                  event.layer_name.s, <<>>))

\* lines 46-114, the body of the try
Body(event, fns, published, fault) ==
    IF Falsy(event.layer_name) \/ Falsy(event.runtime)
    THEN Ended(fns, "ValueError")
    ELSE Pulled(event, fns, published, fault, LambdaFunctions(fns, event))

\* line 123, given the outcome of archive_log_file: an error raised while
\* archiving leaves the notification unsent
Flared(archived, error_log_dest, fault) ==
    IF archived.err # "" THEN archived
    ELSE [c |-> send_notification(archived.c, error_log_dest, fault).c,
          err |-> send_notification(archived.c, error_log_dest, fault).err,
          calls |-> archived.calls
                    \o send_notification(archived.c, error_log_dest, fault).calls]

\* lines 120-123, given the outcome of get_log_path
FlaredFrom(path, error_log_dest, fault) ==
    IF path.err # "" THEN Quiet(path)
    ELSE Flared(archive_log_file(path.c, error_log_dest, fault),
                error_log_dest, fault)

\* lines 116-123, the except clause
Flare(c, log_name, fault) ==
    FlaredFrom(get_log_path(c), "logs/" \o LAMBDA_NAME \o "/" \o log_name, fault)

\* lambda_functions as it stands at line 73, empty if the body ended before
Selected(fns, event) ==
    IF Falsy(event.layer_name) \/ Falsy(event.runtime) THEN <<>>
    ELSE LambdaFunctions(fns, event).lambda_functions

\* lines 126-127 and the return, given the logger of the try (as line 43
\* left it) and the outcomes of the body, of the except clause and of the
\* last change_logfile: an error raised in the except clause replaces the
\* one it handled
Finally(event, time, fault, lg, body, flare, interim) ==
    /\ functions' = body.fns
    /\ cache' = interim.c
    /\ logger' = interim.lg
    /\ run' = [n |-> run.n + 1, event |-> event, time |-> time,
               fault |-> fault, before |-> functions, opened |-> lg,
               lambda_functions |-> Selected(functions, event),
               body_err |-> body.err,
               flare_err |-> flare.err,
               raised |-> IF flare.err # "" THEN flare.err
                          ELSE IF body.err # "" THEN body.err
                          ELSE interim.err,
               calls |-> body.calls \o flare.calls]

\* lines 115-127, given the outcomes of the body and of the except clause
Handled(event, time, fault, lg, body, flare) ==
    Finally(event, time, fault, lg, body, flare,
            change_logfile(lg, flare.c, LAMBDA_NAME \o "_interim.log"))

\* lines 45-127, given the outcomes of line 43 and of the body
Tried(event, time, fault, opened, body) ==
    Handled(event, time, fault, opened.lg, body,
            IF body.err = "" THEN [c |-> opened.c, err |-> "", calls |-> <<>>]
            ELSE Flare(opened.c, LAMBDA_NAME \o "_" \o time \o ".log", fault))

\* lines 21-25: the module is loaded; nothing is defined if a getter raises
LoadModule ==
    /\ logger = NoLogger
    /\ LambdaCoreLoaded.err = ""
    /\ cache' = LambdaCoreLoaded.c
    /\ logger' = LambdaCoreLoaded.lg
    /\ UNCHANGED <<sources, last, ncalls, observed, functions, layer_versions,
                   run>>

\* lambda_handler(event, context) at the time given, with the service
\* failing the calls fault names
LambdaHandler(event, time, fault) ==
    /\ logger # NoLogger
    /\ ncalls < MaxCalls
    /\ Tried(event, time, fault,
             change_logfile(logger, cache, LAMBDA_NAME \o "_" \o time \o ".log"),
             Body(event, functions, layer_versions, fault))
    /\ ncalls' = ncalls + 1
    /\ UNCHANGED <<sources, last, observed, layer_versions>>

----------------------------------------------------------------------------
(* Accounts, events and environments for the layer updater *)

Python == "python3.8"

NodeJs == "nodejs12.x"

LayerArn(layer, version) ==
    "arn:aws:lambda:us-east-1:111122223333:layer:" \o layer \o ":" \o version

FunctionArn(name) == "arn:aws:lambda:us-east-1:111122223333:function:" \o name

\* a function configuration as the service reports it
Function(name, runtime, arns) ==
    [t |-> "dict", FunctionName |-> name, FunctionArn |-> FunctionArn(name),
     Runtime |-> Str(runtime),
     Layers |-> [i \in 1..Len(arns) |-> [t |-> "dict", Arn |-> arns[i]]]]

\* the configuration of a function without layers, reported without Layers
FunctionWithoutLayers(name, runtime) ==
    [t |-> "dict", FunctionName |-> name, FunctionArn |-> FunctionArn(name),
     Runtime |-> Str(runtime)]

Published(layer, version, runtimes) ==
    [LayerName |-> layer, LayerVersionArn |-> LayerArn(layer, version),
     CompatibleRuntimes |-> runtimes]

FirstFunctions ==
    {Function("f1", Python, <<LayerArn("other", "3"), LayerArn("mylayer", "2")>>),
     Function("f1", Python, <<LayerArn("mylayer", "10")>>),
     Function("f1", Python, <<LayerArn("other", "3")>>),
     Function("f1", NodeJs, <<LayerArn("mylayer", "2")>>),
     FunctionWithoutLayers("f1", Python)}

SecondFunctions ==
    {Function("f2", Python, <<LayerArn("mylayer", "9"), LayerArn("other", "3")>>),
     Function("f2", Python, <<LayerArn("mylayer", "10")>>)}

\* accounts with f1 alone and with f1 and f2
Accounts ==
    {[name \in {"f1"} |-> f] : f \in FirstFunctions}
    \cup {[name \in {"f1", "f2"} |-> IF name = "f1" THEN f ELSE g] :
             f \in FirstFunctions, g \in SecondFunctions}

\* version 10 is the latest for Python; version 10 is for NodeJs only;
\* no version is for Python
Publications ==
    {<<Published("mylayer", "10", {Python}), Published("mylayer", "9", {Python}),
       Published("mylayer", "2", {Python, NodeJs}),
       Published("other", "3", {Python})>>,
     <<Published("mylayer", "2", {Python}), Published("mylayer", "10", {NodeJs}),
       Published("other", "3", {Python})>>,
     <<Published("mylayer", "2", {NodeJs}), Published("other", "3", {Python})>>}

Event(layer_name, runtime, has_lambda_names, lambda_names) ==
    [layer_name |-> layer_name, runtime |-> runtime,
     has_lambda_names |-> has_lambda_names, lambda_names |-> lambda_names]

Events ==
    {Event(Str("mylayer"), Str(Python), FALSE, <<>>),
     Event(Str("mylayer"), Str(Python), TRUE, <<"f1">>),
     Event(Str("mylayer"), Str(Python), TRUE, <<"f2", "f1">>),
     Event(Str("mylayer"), Str(Python), TRUE, <<"f3">>),
     Event(None, Str(Python), FALSE, <<>>),
     Event(Str("mylayer"), None, FALSE, <<>>)}

Times == {"1700000000000"}

Faults == {"", "update_function_configuration", "put_object", "publish"}

\* environments of the function, as its deployment sets them: with and
\* without a notification target; archiving to stdout, to S3 with a key and
\* to S3 with the key left out
UpdaterEnvironments ==
    {MapOf({<<"AWS_REGION", "us-east-1">>} \cup n \cup a) :
        n \in Setting("NOTIFICATION_ARN", {"arn:aws:sns:us-east-1:111122223333:alerts"}),
        a \in {{}, {<<"LOG_ARCHIVE_MODE", "s3">>, <<"LOG_KMS_KEY_ID", "Key-1">>},
                {<<"LOG_ARCHIVE_MODE", "s3">>}}}

InitUpdater ==
    /\ script_name = LAMBDA_NAME
    /\ lambda_overrides = EmptyMap
    /\ overrides = EmptyMap
    /\ env \in UpdaterEnvironments
    /\ cache = EmptyCache
    /\ logger = NoLogger
    /\ last = NoCall
    /\ ncalls = 0
    /\ history = <<>>
    /\ given = [env |-> env, overrides |-> overrides]
    /\ functions \in Accounts
    /\ layer_versions \in Publications
    /\ run = NoRun

Invoke ==
    \E event \in Events, time \in Times, fault \in Faults :
        LambdaHandler(event, time, fault)

NextUpdater ==
    \/ LoadModule
    \/ Invoke

SpecUpdater == InitUpdater /\ [][NextUpdater]_vars

----------------------------------------------------------------------------
(* Claims about val *)

\* the entry of each source for a name, highest priority first: <<>> when the
\* source does not contain the name, <<v>> when it maps it to v
SourceEntries(name, fallback) ==
    << IF script_name \in DOMAIN lambda_overrides
          /\ name \in DOMAIN lambda_overrides[script_name]
       THEN <<lambda_overrides[script_name][name]>> ELSE <<>>,
       IF name \in DOMAIN overrides THEN <<overrides[name]>> ELSE <<>>,
       IF name \in DOMAIN env THEN <<env[name]>> ELSE <<>>,
       CASE name \in {"APPLICATION_NAME", "ENVIRONMENT", "GLOBAL_PREFIX",
                      "STACK_NAME"} -> <<"">>
         [] name \in {"DEBUG_MODE", "SAFE_MODE"} -> <<"off">>
         [] name = "LOG_PATH" -> <<"../logs/">>
         [] name = "LOG_ARCHIVE_MODE" -> <<"stdout">>
         [] OTHER -> <<>>,
       IF fallback.t = "none" THEN <<>> ELSE <<fallback.s>> >>

\* the entry of the highest-priority source that contains the name
Highest(name, fallback) ==
    LET e == SourceEntries(name, fallback)
        hits == {i \in 1..Len(e) : e[i] # <<>>}
    IN  IF hits = {} THEN <<>>
        ELSE e[CHOOSE i \in hits : \A j \in hits : i <= j]

\* the value the last val call resolved, before any transformation
Resolved == Highest(last.name.s, last.default_override)

\* C1: val returns the value of the highest-priority source that contains
\* the name (caller-specific override, global override, environment,
\* built-in default, per-call fallback, in this order), lower-cased when
\* lower-casing is requested; no lower-priority source is used instead.
C1_PriorityChain ==
    (last.op = "val" /\ Resolved # <<>>) =>
        /\ last.err # MissingConfiguration
        /\ (last.err = "" /\ ~last.bool_coerce) =>
               last.ret = Str(IF last.to_lower THEN Lower(Resolved[1])
                              ELSE Resolved[1])

\* a name held by the global override and by the environment, with
\* different values: the global override's value is returned
C1_Witness ==
    /\ last.op = "val" /\ last.name = Str("LOG_PATH")
    /\ ~last.to_lower /\ ~last.bool_coerce
    /\ script_name \notin DOMAIN lambda_overrides
    /\ "LOG_PATH" \in DOMAIN overrides /\ "LOG_PATH" \in DOMAIN env
    /\ overrides["LOG_PATH"] = "junk" /\ env["LOG_PATH"] = "on"
    /\ last.err = "" /\ last.ret = Str("junk")

\* C2: a name absent from the caller-specific override, the global
\* override, the environment and the defaults, resolved with no non-null
\* fallback, fails with MissingConfiguration.
C2_MissingFails ==
    (last.op = "val" /\ Resolved = <<>>) =>
        (last.err = MissingConfiguration /\ last.ret = None)

C2_Witness ==
    /\ last.op = "val" /\ last.default_override = None
    /\ last.name.s \in {"AWS_REGION", "FIPS_MODE", "NOTIFICATION_ARN",
                         "LOG_KMS_KEY_ID", "LOG_BUCKET_NAME"}
    /\ Resolved = <<>>
    /\ last.err = MissingConfiguration

EnumeratedSettings ==
    {"DEBUG_MODE", "SAFE_MODE", "FIPS_MODE", "ENABLE_NOTIFICATIONS",
     "LOG_ARCHIVE_MODE"}

LegalValues(name) ==
    IF name = "LOG_ARCHIVE_MODE" THEN {"s3", "stdout"}
    ELSE {"on", "off", "true", "false", "yes", "no"}

\* C3 as stated: for an enumerated setting, a value outside the legal
\* domain fails with InvalidConfigurationValue and an in-domain value,
\* compared case-insensitively, succeeds.
C3_Original ==
    (last.op = "val" /\ last.name.s \in EnumeratedSettings /\ Resolved # <<>>) =>
        IF Lower(Resolved[1]) \in LegalValues(last.name.s)
        THEN last.err = ""
        ELSE last.err = InvalidConfigurationValue

\* C3 as amended: the value compared with the legal domain is the
\* lower-cased value when lower-casing or boolean coercion is requested and
\* the value as resolved otherwise; the call fails with
\* InvalidConfigurationValue exactly when that value is outside the domain.
C3_EnumeratedDomain ==
    (last.op = "val" /\ last.name.s \in EnumeratedSettings /\ Resolved # <<>>) =>
        LET compared == IF last.to_lower \/ last.bool_coerce
                        THEN Lower(Resolved[1]) ELSE Resolved[1]
        IN  IF compared \in LegalValues(last.name.s)
            THEN last.err = ""
            ELSE last.err = InvalidConfigurationValue

\* an upper-case in-domain value accepted because lower-casing was requested
C3_Witness ==
    /\ last.op = "val" /\ last.name = Str("ENABLE_NOTIFICATIONS")
    /\ last.to_lower /\ ~last.bool_coerce
    /\ Resolved = <<"TRUE">>
    /\ last.err = "" /\ last.ret = Str("true")

\* C4: with boolean coercion, once the value was resolved and passed the
\* domain check (if the setting has one), the call does not fail and
\* returns true exactly when the lower-cased value is on, true or yes.
C4_BoolCoercion ==
    (/\ last.op = "val" /\ last.bool_coerce /\ Resolved # <<>>
     /\ last.name.s \in EnumeratedSettings =>
            Lower(Resolved[1]) \in LegalValues(last.name.s)) =>
        /\ last.err = ""
        /\ last.ret = Bool(Lower(Resolved[1]) \in {"on", "true", "yes"})

\* a setting without a domain: an arbitrary string coerces to false
C4_Witness ==
    /\ last.op = "val" /\ last.bool_coerce
    /\ last.name = Str("LOG_PATH") /\ Resolved = <<"nonsense">>
    /\ last.err = "" /\ last.ret = Bool(FALSE)

----------------------------------------------------------------------------
(* Claims about the getters *)

\* the entry of the highest-priority source that contains the name, when no
\* fallback is given
Configured(name) == Highest(name, None)

\* r has the form us-gov-(west|east)-<digits>
HasGovRegionForm(r) ==
    \E d \in {"west", "east"} :
        LET p == "us-gov-" \o d \o "-"
        IN  /\ Len(r) > Len(p)
            /\ SubSeq(r, 1, Len(p)) = p
            /\ \A i \in (Len(p) + 1)..Len(r) :
                   SubSeq(r, i, i) \in {"0", "1", "2", "3", "4", "5", "6",
                                        "7", "8", "9"}

\* C5: when FIPS_MODE is set in no source, get_fips_mode returns true
\* exactly when the lower-cased region has the form
\* us-gov-(west|east)-<digits>, and false for every other region.
C5_AutoDetect ==
    (/\ last.op = "get_fips_mode"
     /\ Configured("FIPS_MODE") = <<>>
     /\ Configured("AWS_REGION") # <<>>) =>
        /\ last.err = ""
        /\ last.ret = Bool(HasGovRegionForm(Lower(Configured("AWS_REGION")[1])))

\* C6: with a region that resolves and FIPS_MODE set to a legal value in
\* some source, get_fips_mode returns the boolean coercion of that value,
\* whatever the region.
C6_ExplicitWins ==
    (/\ last.op = "get_fips_mode"
     /\ Configured("AWS_REGION") # <<>>
     /\ Configured("FIPS_MODE") # <<>>
     /\ Lower(Configured("FIPS_MODE")[1]) \in LegalValues("FIPS_MODE")) =>
        /\ last.err = ""
        /\ last.ret = Bool(Lower(Configured("FIPS_MODE")[1]) \in
                              {"on", "true", "yes"})

\* a government region with the flag explicitly off
C6_Witness ==
    /\ last.op = "get_fips_mode"
    /\ Configured("AWS_REGION") = <<"us-gov-west-1">>
    /\ Configured("FIPS_MODE") = <<"OFF">>
    /\ last.err = "" /\ last.ret = Bool(FALSE)

\* C7: get_fips_mode fails with MissingConfiguration whenever AWS_REGION is
\* in no source, even if FIPS_MODE is set to a legal value.
C7_RegionRequired ==
    (last.op = "get_fips_mode" /\ Configured("AWS_REGION") = <<>>) =>
        (last.err = MissingConfiguration /\ last.ret = None)

C7_Witness ==
    /\ last.op = "get_fips_mode"
    /\ Configured("AWS_REGION") = <<>>
    /\ Configured("FIPS_MODE") = <<"on">>
    /\ last.err = MissingConfiguration

\* the archive mode of the instance, lower-cased (stdout when not set)
ArchiveMode == Lower(Configured("LOG_ARCHIVE_MODE")[1])

\* C8 as stated: get_log_kms_key_id fails with InvalidState whenever
\* LOG_ARCHIVE_MODE is anything other than s3, and returns LOG_KMS_KEY_ID
\* when the mode is s3 and the key is present.
C8_Original ==
    last.op = "get_log_kms_key_id" =>
        /\ ArchiveMode # "s3" => last.err = InvalidState
        /\ (ArchiveMode = "s3" /\ Configured("LOG_KMS_KEY_ID") # <<>>) =>
               (last.err = "" /\ last.ret = Str(Configured("LOG_KMS_KEY_ID")[1]))

\* C8 as amended: get_log_kms_key_id fails with InvalidState when the
\* lower-cased LOG_ARCHIVE_MODE is stdout, fails with
\* InvalidConfigurationValue when it is neither s3 nor stdout, and returns
\* LOG_KMS_KEY_ID when it is s3 and the key is present.
C8_ArchiveKey ==
    last.op = "get_log_kms_key_id" =>
        /\ ArchiveMode = "stdout" => last.err = InvalidState
        /\ ArchiveMode \notin {"s3", "stdout"} =>
               last.err = InvalidConfigurationValue
        /\ (ArchiveMode = "s3" /\ Configured("LOG_KMS_KEY_ID") # <<>>) =>
               (last.err = "" /\ last.ret = Str(Configured("LOG_KMS_KEY_ID")[1]))

\* the key is refused under stdout although it is configured
C8_Witness ==
    /\ last.op = "get_log_kms_key_id"
    /\ Configured("LOG_ARCHIVE_MODE") = <<"STDOUT">>
    /\ Configured("LOG_KMS_KEY_ID") = <<"Key-1">>
    /\ last.err = InvalidState

----------------------------------------------------------------------------
(* Claims about the name builders *)

\* the text an optional segment contributes: its lower-cased value followed
\* by the separator, or nothing when it is excluded or empty
Part(include, name, sep) ==
    LET v == Lower(Configured(name)[1])
    IN  IF include /\ v # "" THEN v \o sep ELSE ""

FirstChar(s) == IF s = "" THEN "" ELSE SubSeq(s, 1, 1)

LastChar(s) == IF s = "" THEN "" ELSE SubSeq(s, Len(s), Len(s))

\* C9: build_bucket_name returns the global prefix, the application name and
\* the environment, each present only when its flag is on and its value is
\* not empty, then name, joined by dashes: no marker, and no separator
\* before the first or after the last segment.
C9_BucketName ==
    last.op = "build_bucket_name" =>
        /\ last.err = ""
        /\ last.ret =
               Str(Part(last.include_global_prefix, "GLOBAL_PREFIX", "-")
                   \o Part(last.include_application_name, "APPLICATION_NAME", "-")
                   \o Part(last.include_environment, "ENVIRONMENT", "-")
                   \o last.name.s)
        /\ FirstChar(last.ret.s) # "-"
        /\ LastChar(last.ret.s) # "-"

C9_Witness ==
    /\ last.op = "build_bucket_name"
    /\ last.include_global_prefix /\ last.include_application_name
    /\ last.include_environment
    /\ last.ret = Str("test-myappname-dev-testbucket1")

\* C10: build_ssm_param_name returns a string that starts with "/": with a
\* name, "/" then each included non-empty segment followed by "/" (prefix,
\* application, environment, stack) then "ssm/" and the name; without a
\* name, no marker, and the result ends with a single "/".
C10_SsmParamName ==
    last.op = "build_ssm_param_name" =>
        LET path == "/" \o Part(last.include_global_prefix, "GLOBAL_PREFIX", "/")
                        \o Part(last.include_application_name, "APPLICATION_NAME", "/")
                        \o Part(last.include_environment, "ENVIRONMENT", "/")
                        \o Part(last.include_stack_name, "STACK_NAME", "/")
            r == last.ret.s
        IN  /\ last.err = ""
            /\ last.ret.t = "str"
            /\ FirstChar(r) = "/"
            /\ last.name # None => r = path \o "ssm/" \o last.name.s
            /\ last.name = None =>
                   /\ r = path
                   /\ LastChar(r) = "/"
                   /\ Len(r) > 1 => SubSeq(r, Len(r) - 1, Len(r)) # "//"

C10_Witness ==
    /\ last.op = "build_ssm_param_name"
    /\ last.name = None
    /\ last.include_global_prefix /\ last.include_application_name
    /\ last.include_environment /\ last.include_stack_name
    /\ last.ret = Str("/test/myappname/dev/stack-a/")

\* C11: for every combination of the four flags, build_legacy_ssm_param_name
\* returns the included non-empty segments in the order global prefix,
\* application name, environment, stack name, then the marker ssm, then
\* name, joined by dashes, with no dash before the first or after the last.
C11_LegacySsmParamName ==
    last.op = "build_legacy_ssm_param_name" =>
        /\ last.err = ""
        /\ last.ret =
               Str(Part(last.include_global_prefix, "GLOBAL_PREFIX", "-")
                   \o Part(last.include_application_name, "APPLICATION_NAME", "-")
                   \o Part(last.include_environment, "ENVIRONMENT", "-")
                   \o Part(last.include_stack_name, "STACK_NAME", "-")
                   \o "ssm-" \o last.name.s)
        /\ FirstChar(last.ret.s) # "-"
        /\ LastChar(last.ret.s) # "-"

\* two of the four segments included, the other two configured but excluded
C11_Witness ==
    /\ last.op = "build_legacy_ssm_param_name"
    /\ last.include_global_prefix /\ ~last.include_application_name
    /\ ~last.include_environment /\ last.include_stack_name
    /\ Configured("APPLICATION_NAME") = <<"myappname">>
    /\ Configured("ENVIRONMENT") = <<"dev">>
    /\ last.ret = Str("test-stack-a-ssm-param1")

\* prefix=test, app=myappname, env=dev, stack=stack-a are configured
ExampleConfigured ==
    /\ Lower(Configured("GLOBAL_PREFIX")[1]) = "test"
    /\ Lower(Configured("APPLICATION_NAME")[1]) = "myappname"
    /\ Lower(Configured("ENVIRONMENT")[1]) = "dev"
    /\ Lower(Configured("STACK_NAME")[1]) = "stack-a"

AllIncluded ==
    /\ last.include_global_prefix /\ last.include_application_name
    /\ last.include_environment /\ last.include_stack_name

NoneIncluded ==
    /\ ~last.include_global_prefix /\ ~last.include_application_name
    /\ ~last.include_environment /\ ~last.include_stack_name

\* C12 as stated: with prefix=test, app=myappname, env=dev, stack=stack-a
\* configured, the legacy name for param1 is
\* test-myappname-stack-a-ssm-param1 with all four segments included and
\* ssm-param1 with all of them excluded.
C12_Original ==
    (/\ last.op = "build_legacy_ssm_param_name"
     /\ last.name = Str("param1") /\ ExampleConfigured) =>
        /\ AllIncluded => last.ret = Str("test-myappname-stack-a-ssm-param1")
        /\ NoneIncluded => last.ret = Str("ssm-param1")

\* C12 as amended: with the same configuration, the legacy name for param1
\* is test-myappname-dev-stack-a-ssm-param1 with all four segments included
\* (the environment is one of them) and ssm-param1 with all of them
\* excluded.
C12_LegacyExample ==
    (/\ last.op = "build_legacy_ssm_param_name"
     /\ last.name = Str("param1") /\ ExampleConfigured) =>
        /\ AllIncluded => last.ret = Str("test-myappname-dev-stack-a-ssm-param1")
        /\ NoneIncluded => last.ret = Str("ssm-param1")

C12_Witness ==
    /\ last.op = "build_legacy_ssm_param_name"
    /\ last.name = Str("param1") /\ ExampleConfigured /\ AllIncluded
    /\ last.err = ""
    /\ last.ret = Str("test-myappname-dev-stack-a-ssm-param1")

\* the number of components an optional segment contributes
Contributed(include, name, sep) ==
    LET v == Lower(Configured(name)[1])
    IN  IF include /\ v # "" THEN Len(Components(v, sep, "")) ELSE 0

BuilderOps ==
    {"build_legacy_ssm_param_name", "build_ssm_param_name", "build_bucket_name"}

\* C13: in the three schemes, a segment that is included but resolves to the
\* empty string contributes nothing: split at its separator, the built name
\* has exactly the components of the non-empty included segments, the marker
\* and the name, and none of them is empty, except the first (and, for a
\* null name, the last) of the hierarchical form.
C13_EmptySegmentsOmitted ==
    (last.op \in BuilderOps /\ last.err = "") =>
        LET hierarchical == last.op = "build_ssm_param_name"
            sep == IF hierarchical THEN "/" ELSE "-"
            parts == Components(last.ret.s, sep, "")
            n == Len(parts)
            mayBeEmpty == IF ~hierarchical THEN {}
                          ELSE IF last.name = None THEN {1, n} ELSE {1}
            fixed == CASE last.op = "build_bucket_name" -> 1
                       [] last.op = "build_legacy_ssm_param_name" -> 2
                       [] last.name = None -> 2
                       [] OTHER -> 3
        IN  /\ \A i \in 1..n : parts[i] = "" => i \in mayBeEmpty
            /\ n = fixed
                   + Contributed(last.include_global_prefix, "GLOBAL_PREFIX", sep)
                   + Contributed(last.include_application_name,
                                 "APPLICATION_NAME", sep)
                   + Contributed(last.include_environment, "ENVIRONMENT", sep)
                   + Contributed(last.include_stack_name, "STACK_NAME", sep)

\* the global prefix is included and set to the empty string
C13_Witness ==
    /\ last.op = "build_bucket_name"
    /\ last.include_global_prefix /\ last.include_application_name
    /\ last.include_environment
    /\ "GLOBAL_PREFIX" \in DOMAIN env /\ env["GLOBAL_PREFIX"] = ""
    /\ last.ret = Str("myappname-dev-testbucket1")

----------------------------------------------------------------------------
(* Claims about the log bucket name *)

\* C16: get_log_bucket_name returns the lower-cased LOG_BUCKET_NAME when some
\* source holds it; when no source holds it, it returns the bucket name
\* built for logs from the global prefix and the application name, without
\* the environment; it never fails for a missing LOG_BUCKET_NAME.
C16_LogBucketName ==
    last.op = "get_log_bucket_name" =>
        /\ last.err = ""
        /\ last.ret =
               IF Configured("LOG_BUCKET_NAME") # <<>>
               THEN Str(Lower(Configured("LOG_BUCKET_NAME")[1]))
               ELSE Str(Part(TRUE, "GLOBAL_PREFIX", "-")
                        \o Part(TRUE, "APPLICATION_NAME", "-") \o "logs")

\* prefix=log and app=test with an environment that stays out of the name
C16_Witness ==
    /\ last.op = "get_log_bucket_name"
    /\ Configured("LOG_BUCKET_NAME") = <<>>
    /\ Configured("GLOBAL_PREFIX") = <<"log">>
    /\ Configured("APPLICATION_NAME") = <<"test">>
    /\ Configured("ENVIRONMENT") = <<"dev">>
    /\ last.ret = Str("log-test-logs")

----------------------------------------------------------------------------
(* Claims about memoization, the mappings and failures *)

GetterOps ==
    {"get_application_name", "get_debug_mode", "get_log_level", "get_log_path",
     "get_safe_mode", "get_aws_region", "get_fips_mode", "get_global_prefix",
     "get_environment", "get_stack_name", "get_log_archive_mode",
     "get_log_kms_key_id", "get_notification_arn", "get_log_bucket_name"}

\* C14: once a call of a getter on an instance has returned a value, every
\* later call of that getter on the instance returns the same value, also
\* when the global override or the environment mapping was changed between
\* the two calls.
C14_Memoization ==
    \A i, j \in 1..Len(history) :
        (/\ i < j
         /\ history[i].op \in GetterOps /\ history[j].op = history[i].op
         /\ history[i].err = "") =>
            (history[j].err = "" /\ history[j].ret = history[i].ret)

\* the application name is read, then changed in the environment, then read
\* again: the sources now resolve it to another value than the one returned
C14_Witness ==
    /\ Len(history) = 3
    /\ history[1].op = "get_application_name" /\ history[1].ret = Str("first")
    /\ history[2].op = "setenv" /\ history[2].name = "APPLICATION_NAME"
    /\ history[3].op = "get_application_name" /\ history[3].ret = Str("first")
    /\ Configured("APPLICATION_NAME") = <<"Changed">>

\* the entry for name in the mappings as they were at construction
AtConstruction(name) ==
    IF name \in DOMAIN given.overrides THEN <<given.overrides[name]>>
    ELSE IF name \in DOMAIN given.env THEN <<given.env[name]>>
    ELSE IF name \in {"APPLICATION_NAME", "ENVIRONMENT", "GLOBAL_PREFIX",
                      "STACK_NAME"} THEN <<"">>
    ELSE IF name = "LOG_PATH" THEN <<"../logs/">>
    ELSE <<>>

\* the getters that return one setting, lower-cased or as it is
PlainGetters ==
    {[op |-> "get_application_name", name |-> "APPLICATION_NAME", lower |-> TRUE],
     [op |-> "get_aws_region", name |-> "AWS_REGION", lower |-> TRUE],
     [op |-> "get_global_prefix", name |-> "GLOBAL_PREFIX", lower |-> TRUE],
     [op |-> "get_environment", name |-> "ENVIRONMENT", lower |-> TRUE],
     [op |-> "get_stack_name", name |-> "STACK_NAME", lower |-> TRUE],
     [op |-> "get_log_path", name |-> "LOG_PATH", lower |-> FALSE],
     [op |-> "get_notification_arn", name |-> "NOTIFICATION_ARN", lower |-> FALSE]}

\* C15: the environment (and override) mapping is snapshotted at
\* construction: whatever is changed in the supplied mappings afterwards,
\* also before a setting is first resolved, a getter resolves the setting
\* from the mappings as they were at construction.
C15_Snapshot ==
    \A i \in 1..Len(history) : \A g \in PlainGetters :
        history[i].op = g.op =>
            LET e == AtConstruction(g.name)
            IN  IF e = <<>> THEN history[i].err = MissingConfiguration
                ELSE /\ history[i].err = ""
                     /\ history[i].ret = Str(IF g.lower THEN Lower(e[1]) ELSE e[1])

\* the memo slot of each getter
SlotOf(op) ==
    CASE op = "get_application_name" -> "application_name"
      [] op = "get_debug_mode" -> "debug_mode"
      [] op = "get_log_level" -> "log_level"
      [] op = "get_log_path" -> "log_path"
      [] op = "get_safe_mode" -> "safe_mode"
      [] op = "get_aws_region" -> "aws_region"
      [] op = "get_fips_mode" -> "fips_mode"
      [] op = "get_global_prefix" -> "global_prefix"
      [] op = "get_environment" -> "environment"
      [] op = "get_stack_name" -> "stack_name"
      [] op = "get_log_archive_mode" -> "log_archive_mode"
      [] op = "get_log_kms_key_id" -> "log_kms_key_id"
      [] op = "get_notification_arn" -> "notification_arn"
      [] op = "get_log_bucket_name" -> "log_bucket"

\* C17: a getter call that fails with MissingConfiguration,
\* InvalidConfigurationValue or InvalidState returns no value and leaves its
\* own memo slot empty, and the same call repeated with the sources
\* unchanged fails with the same error.
C17_FailuresFatal ==
    /\ \A i \in 1..Len(history) :
           history[i].err # "" =>
               /\ history[i].err \in {MissingConfiguration,
                                      InvalidConfigurationValue, InvalidState}
               /\ history[i].ret = None
    /\ (last.op \in GetterOps /\ last.err # "") => cache[SlotOf(last.op)] = None
    /\ \A i \in 1..(Len(history) - 1) :
           (/\ history[i].op \in GetterOps /\ history[i].err # ""
            /\ history[i + 1].op = history[i].op) =>
               history[i + 1].err = history[i].err

\* the key is refused twice under stdout; the archive mode is memoized, the
\* key is not
C17_Witness ==
    /\ Len(history) = 2
    /\ history[1].op = "get_log_kms_key_id" /\ history[1].err = InvalidState
    /\ history[2].op = "get_log_kms_key_id" /\ history[2].err = InvalidState
    /\ Configured("LOG_KMS_KEY_ID") = <<"Key-1">>
    /\ cache.log_archive_mode = Str("stdout")
    /\ cache.log_kms_key_id = None

----------------------------------------------------------------------------
(* Claims about lambda_handler *)

\* what the layer version ARNs of the accounts stand for
ArnFacts ==
    {[arn |-> "arn:aws:lambda:us-east-1:111122223333:layer:mylayer:2",
      layer |-> "mylayer", version |-> 2],
     [arn |-> "arn:aws:lambda:us-east-1:111122223333:layer:mylayer:9",
      layer |-> "mylayer", version |-> 9],
     [arn |-> "arn:aws:lambda:us-east-1:111122223333:layer:mylayer:10",
      layer |-> "mylayer", version |-> 10],
     [arn |-> "arn:aws:lambda:us-east-1:111122223333:layer:other:3",
      layer |-> "other", version |-> 3]}

LayerOf(arn) == (CHOOSE a \in ArnFacts : a.arn = arn).layer

VersionOf(arn) == (CHOOSE a \in ArnFacts : a.arn = arn).version

\* the event of the last invocation names a layer and a runtime
Requested == ~Falsy(run.event.layer_name) /\ ~Falsy(run.event.runtime)

\* the versions of the requested layer listed as compatible with the
\* requested runtime
Compatible ==
    {layer_versions[i].LayerVersionArn : i \in
        {j \in 1..Len(layer_versions) :
            /\ layer_versions[j].LayerName = run.event.layer_name.s
            /\ run.event.runtime.s \in layer_versions[j].CompatibleRuntimes}}

\* the compatible version with the highest number
Best == CHOOSE a \in Compatible : \A b \in Compatible : VersionOf(b) <= VersionOf(a)

\* the positions of the layers of f that hold the requested layer
Uses(f) ==
    IF "Layers" \notin DOMAIN f THEN {}
    ELSE {i \in 1..Len(f.Layers) :
             LayerOf(f.Layers[i].Arn) = run.event.layer_name.s}

\* the function as it was when the last invocation began, by its ARN
Before(arn) ==
    run.before[CHOOSE name \in DOMAIN run.before :
                   run.before[name].FunctionArn = arn]

UpdateCalls ==
    {k \in 1..Len(run.calls) :
        run.calls[k].api = "update_function_configuration"}

\* C18: after lambda_handler completed without error for an event with
\* layer_name and runtime, every function of the requested runtime that
\* referenced an outdated version of the layer has the best compatible
\* version in its entry for the layer.
C18_Repointed ==
    (run.n > 0 /\ Requested /\ run.raised = "") =>
        \A name \in DOMAIN run.before :
            (/\ run.before[name].Runtime = run.event.runtime
             /\ \E i \in Uses(run.before[name]) :
                    VersionOf(run.before[name].Layers[i].Arn) < VersionOf(Best)) =>
                \A i \in Uses(functions[name]) :
                    functions[name].Layers[i].Arn = Best

\* C19: for a target function whose layers already hold the best layer
\* version ARN, lambda_handler makes no update_function_configuration call.
C19_NoUpdateWhenLatest ==
    \A k \in UpdateCalls :
        \A i \in 1..Len(Before(run.calls[k].target).Layers) :
            Before(run.calls[k].target).Layers[i].Arn # Best

\* C20: every layer list sent to update_function_configuration has the
\* length of the function's current list, holds the best layer version ARN
\* at each position whose layer is the requested one, and the function's
\* own ARN at every other position.
C20_OrderPreserved ==
    \A k \in UpdateCalls :
        LET sent == run.calls[k].layers
            current == Before(run.calls[k].target).Layers
        IN  /\ Len(sent) = Len(current)
            /\ \A i \in 1..Len(current) :
                   sent[i] = IF LayerOf(current[i].Arn) = run.event.layer_name.s
                             THEN Best ELSE current[i].Arn

\* the requested layer is second of two: it is replaced where it stands
C20_Witness ==
    \E k \in UpdateCalls :
        /\ Len(Before(run.calls[k].target).Layers) = 2
        /\ Before(run.calls[k].target).Layers[2].Arn
               = "arn:aws:lambda:us-east-1:111122223333:layer:mylayer:2"
        /\ run.calls[k].layers
               = <<"arn:aws:lambda:us-east-1:111122223333:layer:other:3",
                   "arn:aws:lambda:us-east-1:111122223333:layer:mylayer:10">>

\* the log archive mode the environment of the function asks for is s3
ArchiveToS3 ==
    "LOG_ARCHIVE_MODE" \in DOMAIN env /\ env["LOG_ARCHIVE_MODE"] = "s3"

\* where the except clause archives the log of the last invocation
ErrorLogDest ==
    "logs/layer_updater/layer_updater_" \o run.time \o ".log"

\* the calls of the last invocation that put the log of the invocation
PutCalls ==
    {k \in 1..Len(run.calls) :
        run.calls[k].api = "put_object" /\ run.calls[k].key = ErrorLogDest}

\* the calls of the last invocation that publish a notification
PublishCalls ==
    {k \in 1..Len(run.calls) : run.calls[k].api = "publish"}

\* C21: whenever the body of lambda_handler raised, the log file was
\* archived (put to S3 when the archive mode is s3), then the error
\* notification was published, and the exception that reaches the caller is
\* the one the body raised.
C21_ArchivedThenNotified ==
    (run.n > 0 /\ run.body_err # "") =>
        /\ \E k \in PublishCalls :
               ArchiveToS3 => \E j \in PutCalls : j < k
        /\ run.flare_err = ""
        /\ run.raised = run.body_err

\* the names the event of the last invocation lists
Named == {run.event.lambda_names[i] : i \in 1..Len(run.event.lambda_names)}

\* C22: when the event supplies lambda_names and each names a function of
\* the account, the candidates of lambda_handler are exactly the named
\* functions whose runtime is the requested runtime.
C22_NamedSelected ==
    (/\ run.n > 0
     /\ Requested
     /\ run.event.has_lambda_names
     /\ Named \subseteq DOMAIN run.before) =>
        {run.lambda_functions[i].FunctionName :
            i \in 1..Len(run.lambda_functions)}
        = {name \in Named : run.before[name].Runtime = run.event.runtime}

\* the file handlers on a logger: its handlers but the stream handler
FileHandlers(lg) ==
    {lg.handlers[i] : i \in {j \in 1..Len(lg.handlers) :
                                 lg.handlers[j].file # "<stdout>"}}

\* the directory of the log files
LogDirectory ==
    IF "LOG_PATH" \in DOMAIN env THEN env["LOG_PATH"] ELSE "../logs/"

\* lg has one file handler, the one in use, which writes to filename; every
\* file handler made before it is closed, and no closed handler is on lg
OneFileHandler(lg, filename) ==
    /\ FileHandlers(lg)
           = {[id |-> lg.log_handler, file |-> LogDirectory \o "/" \o filename]}
    /\ Len(lg.handlers) = 2
    /\ lg.closed = 2..(lg.log_handler - 1)
    /\ \A i \in 1..Len(lg.handlers) : lg.handlers[i].id \notin lg.closed

\* C23: once the LambdaCore is constructed, and after each change_logfile
\* since (line 43 and line 127 of every invocation), the logger has exactly
\* one file handler, for the file requested last, and every file handler
\* attached before it is closed and off the logger.
C23_OneFileHandler ==
    /\ logger # NoLogger =>
           OneFileHandler(logger, IF run.n = 0 THEN "bootstrap.log"
                                  ELSE "layer_updater_interim.log")
    /\ run.n > 0 =>
           OneFileHandler(run.opened,
                          "layer_updater_" \o run.time \o ".log")

\* two invocations: the fifth file handler is in use, four are closed
C23_Witness ==
    /\ run.n = 2
    /\ Cardinality(logger.closed) = 4
    /\ Cardinality(FileHandlers(logger)) = 1
    /\ Cardinality(run.opened.closed) = 3

====
